---- MODULE Spec2Model ----
(***************************************************************************)
(* wagtail-localize-intentional-blanks: the "do not translate" override    *)
(* stored inside StringTranslation.data.                                   *)
(*                                                                         *)
(* Text is a sequence of one-character strings.  A StringTranslation row   *)
(* is a record [string, locale, context, data, last_translated_by]; the    *)
(* table is the set of rows.                                               *)
(***************************************************************************)
EXTENDS Integers, Sequences, FiniteSets, TLC

VARIABLES
    store,       \* the StringTranslation table: a set of rows
    cfg,         \* the settings read through get_setting
    init_store,  \* the table as it was before the first call
    hist,        \* the last calls that wrote to the table, most recent first
    ret,         \* the call that returned last, with its arguments and result
    pc,          \* per concurrent caller: its position inside mark
    loc          \* per concurrent caller: the locals it holds between steps

vars == <<store, cfg, init_store, hist, ret, pc, loc>>

(***************************************************************************)
(* Bounds.                                                                 *)
(***************************************************************************)
MaxLen == 2        \* longest text a translator has typed before the first call
MaxSegs == 2       \* longest list of segments handed to resolve

(***************************************************************************)
(* Text helpers (Python str operations).                                   *)
(***************************************************************************)
Chars == {"M", "|", "a"}

RECURSIVE TextsOfLen(_)
TextsOfLen(n) ==
    IF n = 0 THEN {<<>>}
    ELSE {Append(t, c) : t \in TextsOfLen(n - 1), c \in Chars}

Texts == UNION {TextsOfLen(n) : n \in 0..MaxLen}

PlainText == <<"a">>

\* str.startswith
StartsWith(s, p) == Len(s) >= Len(p) /\ SubSeq(s, 1, Len(p)) = p

\* the positions at which p occurs in s
Occurrences(s, p) ==
    {i \in 1..(Len(s) - Len(p) + 1) : SubSeq(s, i, i + Len(p) - 1) = p}

\* "p in s"
Contains(s, p) == Occurrences(s, p) # {}

\* s.split(p, 1)[1]: what follows the first occurrence of p in s
SplitAfterFirst(s, p) ==
    LET i == CHOOSE j \in Occurrences(s, p) : \A k \in Occurrences(s, p) : j <= k
    IN  SubSeq(s, i + Len(p), Len(s))

(***************************************************************************)
(* Settings.                                                               *)
(***************************************************************************)
DO_NOT_TRANSLATE_MARKER == <<"M">>     \* stands for "__DO_NOT_TRANSLATE__"
BACKUP_SEPARATOR == <<"|">>            \* stands for "|backup|"

\* A setting is unset, None or a text: [kind, text], text being <<>> unless
\* kind = "text".
Unset == [kind |-> "unset", text |-> <<>>]
None == [kind |-> "none", text |-> <<>>]
Text(t) == [kind |-> "text", text |-> t]

\* get_setting: the value in the Django settings, or the package default
\* when the setting is not there
get_setting(setting, default) ==
    IF setting.kind = "unset" THEN Text(default) ELSE setting

get_marker == get_setting(cfg.marker, DO_NOT_TRANSLATE_MARKER).text
get_backup_separator == get_setting(cfg.sep, BACKUP_SEPARATOR).text

\* ConfigValid that forgets the separator
ConfigValid_MarkerOnly ==
    /\ get_setting(cfg.marker, DO_NOT_TRANSLATE_MARKER).kind # "none"
    /\ get_marker # <<>>

\* validate_configuration raises ValueError unless both are non-empty
ConfigValid ==
    /\ get_setting(cfg.marker, DO_NOT_TRANSLATE_MARKER).kind # "none"
    /\ get_marker # <<>>
    /\ get_setting(cfg.sep, BACKUP_SEPARATOR).kind # "none"
    /\ get_backup_separator # <<>>

\* the settings of the test project: marker set, separator not set, no
\* permission required
TestSettings(enabled) ==
    [marker |-> Text(DO_NOT_TRANSLATE_MARKER), sep |-> Unset, enabled |-> enabled,
     perm |-> "None"]

(***************************************************************************)
(* The content model the package reads: strings, segments, translations.   *)
(***************************************************************************)
NoUser == "None"
Users == {NoUser, "u1"}

Segments ==
    { [id |-> 1, string |-> "s1", context |-> "c1", order |-> 0],
      [id |-> 2, string |-> "s2", context |-> "c2", order |-> 1] }

\* String.data: the source text of a string
StringData(s) == IF s = "s1" THEN <<"e", "1">> ELSE <<"e", "2">>

Translations == { [id |-> 1, source |-> "src", target_locale |-> "fr"] }


(***************************************************************************)
(* The StringTranslation table.                                            *)
(***************************************************************************)
Row(s, l, c, d, u) ==
    [string |-> s, locale |-> l, context |-> c, data |-> d, last_translated_by |-> u]

\* Rows without the context in the filter
Rows_NoContext(st, s, l, c) ==
    {r \in st : r.string = s /\ r.locale = l}

\* StringTranslation.objects.filter(translation_of=s, locale=l, context=c)
Rows(st, s, l, c) ==
    {r \in st : r.string = s /\ r.locale = l /\ r.context = c}

\* the outcome of QuerySet.get() on a set of rows
GetOutcome(rows) ==
    IF rows = {} THEN "DoesNotExist"
    ELSE IF Cardinality(rows) > 1 THEN "MultipleObjectsReturned"
    ELSE "ok"

TheRow(rows) == CHOOSE r \in rows : TRUE

\* is_do_not_translate, on the data of a row
is_do_not_translate(data) ==
    data = get_marker \/ StartsWith(data, get_marker \o get_backup_separator)

\* MarkerWithBackup with the separator left out of the prefix test
MarkerWithBackup_MarkerPrefix(rows) ==
    IF rows = {} THEN get_marker
    ELSE LET existing == TheRow(rows)
         IN  IF /\ existing.data # get_marker
                /\ ~StartsWith(existing.data, get_marker)
             THEN get_marker \o get_backup_separator \o existing.data
             ELSE get_marker

\* MarkerWithBackup that backs up whatever the row holds
MarkerWithBackup_AlwaysBackup(rows) ==
    IF rows = {} THEN get_marker
    ELSE get_marker \o get_backup_separator \o TheRow(rows).data

\* the value mark writes, decided from the rows it read for the key
MarkerWithBackup(rows) ==
    IF rows = {} THEN get_marker
    ELSE LET existing == TheRow(rows)
         IN  IF /\ existing.data # get_marker
                /\ ~StartsWith(existing.data, get_marker \o get_backup_separator)
             THEN get_marker \o get_backup_separator \o existing.data
             ELSE get_marker

\* UpdateOrCreate that always creates (objects.create)
UpdateOrCreate_Create(st, s, l, c, d, u) == st \cup {Row(s, l, c, d, u)}

\* StringTranslation.objects.update_or_create(key, defaults={data, last_translated_by})
UpdateOrCreate(st, s, l, c, d, u) ==
    LET rows == Rows(st, s, l, c)
    IN  IF rows = {} THEN st \cup {Row(s, l, c, d, u)}
        ELSE (st \ rows) \cup {[TheRow(rows) EXCEPT !.data = d, !.last_translated_by = u]}

\* mark_segment_do_not_translate: the table it leaves, the exception it
\* raises ("" for none) and the row it returns
MarkResult(st, tr, seg, user) ==
    LET rows == Rows(st, seg.string, tr.target_locale, seg.context)
        out  == GetOutcome(rows)
        d    == MarkerWithBackup(rows)
        st2  == UpdateOrCreate(st, seg.string, tr.target_locale, seg.context, d, user)
    IN  IF ~ConfigValid
        THEN [store |-> st, exc |-> "ValueError", val |-> <<>>]
        ELSE IF out = "MultipleObjectsReturned"
        THEN [store |-> st, exc |-> out, val |-> <<>>]
        ELSE [store |-> st2, exc |-> "",
              val |-> <<TheRow(Rows(st2, seg.string, tr.target_locale, seg.context))>>]

\* the backup unmark extracts from a row found by data__startswith:
\* <<>> is None, <<b>> is the string b
ExtractBackup(data) ==
    IF Contains(data, get_backup_separator)
    THEN <<SplitAfterFirst(data, get_backup_separator)>>
    ELSE <<>>

\* Python truth of backup_data: neither None nor ""
Truthy(backup) == backup # <<>> /\ backup[1] # <<>>

\* UnmarkResult without the lookup of the bare marker
UnmarkResult_EncodedOnly(st, tr, seg) ==
    LET rows    == Rows(st, seg.string, tr.target_locale, seg.context)
        found   == {r \in rows : StartsWith(r.data, get_marker \o get_backup_separator)}
        out     == GetOutcome(found)
        marked  == TheRow(found)
        backup  == ExtractBackup(marked.data)
    IN  IF ~ConfigValid
        THEN [store |-> st, exc |-> "ValueError", val |-> <<>>]
        ELSE IF out = "MultipleObjectsReturned"
        THEN [store |-> st, exc |-> out, val |-> <<>>]
        ELSE IF out = "DoesNotExist"
        THEN [store |-> st, exc |-> "", val |-> <<0>>]
        ELSE IF Truthy(backup)
        THEN [store |-> (st \ {marked}) \cup {[marked EXCEPT !.data = backup[1]]},
              exc |-> "", val |-> <<1>>]
        ELSE [store |-> st \ {marked}, exc |-> "", val |-> <<1>>]

\* UnmarkResult with the separator left out of the prefix lookup
UnmarkResult_MarkerPrefix(st, tr, seg) ==
    LET rows    == Rows(st, seg.string, tr.target_locale, seg.context)
        exact   == {r \in rows : r.data = get_marker}
        encoded == {r \in rows : StartsWith(r.data, get_marker)}
        found   == IF GetOutcome(exact) = "DoesNotExist" THEN encoded ELSE exact
        out     == GetOutcome(found)
        marked  == TheRow(found)
        backup  == IF found = exact THEN <<>> ELSE ExtractBackup(marked.data)
    IN  IF ~ConfigValid
        THEN [store |-> st, exc |-> "ValueError", val |-> <<>>]
        ELSE IF out = "MultipleObjectsReturned"
        THEN [store |-> st, exc |-> out, val |-> <<>>]
        ELSE IF out = "DoesNotExist"
        THEN [store |-> st, exc |-> "", val |-> <<0>>]
        ELSE IF Truthy(backup)
        THEN [store |-> (st \ {marked}) \cup {[marked EXCEPT !.data = backup[1]]},
              exc |-> "", val |-> <<1>>]
        ELSE [store |-> st \ {marked}, exc |-> "", val |-> <<1>>]

\* UnmarkResult that restores what precedes the first separator
\* (split(...)[0]) instead of what follows it
UnmarkResult_SplitHead(st, tr, seg) ==
    LET rows    == Rows(st, seg.string, tr.target_locale, seg.context)
        exact   == {r \in rows : r.data = get_marker}
        encoded == {r \in rows : StartsWith(r.data, get_marker \o get_backup_separator)}
        found   == IF GetOutcome(exact) = "DoesNotExist" THEN encoded ELSE exact
        out     == GetOutcome(found)
        marked  == TheRow(found)
        backup  == IF found = exact THEN <<>> ELSE <<get_marker>>
    IN  IF ~ConfigValid
        THEN [store |-> st, exc |-> "ValueError", val |-> <<>>]
        ELSE IF out = "MultipleObjectsReturned"
        THEN [store |-> st, exc |-> out, val |-> <<>>]
        ELSE IF out = "DoesNotExist"
        THEN [store |-> st, exc |-> "", val |-> <<0>>]
        ELSE IF Truthy(backup)
        THEN [store |-> (st \ {marked}) \cup {[marked EXCEPT !.data = backup[1]]},
              exc |-> "", val |-> <<1>>]
        ELSE [store |-> st \ {marked}, exc |-> "", val |-> <<1>>]

\* unmark_segment_do_not_translate
UnmarkResult(st, tr, seg) ==
    LET rows    == Rows(st, seg.string, tr.target_locale, seg.context)
        exact   == {r \in rows : r.data = get_marker}
        encoded == {r \in rows : StartsWith(r.data, get_marker \o get_backup_separator)}
        found   == IF GetOutcome(exact) = "DoesNotExist" THEN encoded ELSE exact
        out     == GetOutcome(found)
        marked  == TheRow(found)
        backup  == IF found = exact THEN <<>> ELSE ExtractBackup(marked.data)
    IN  IF ~ConfigValid
        THEN [store |-> st, exc |-> "ValueError", val |-> <<>>]
        ELSE IF out = "MultipleObjectsReturned"
        THEN [store |-> st, exc |-> out, val |-> <<>>]
        ELSE IF out = "DoesNotExist"
        THEN [store |-> st, exc |-> "", val |-> <<0>>]
        ELSE IF Truthy(backup)
        THEN [store |-> (st \ {marked}) \cup {[marked EXCEPT !.data = backup[1]]},
              exc |-> "", val |-> <<1>>]
        ELSE [store |-> st \ {marked}, exc |-> "", val |-> <<1>>]

(***************************************************************************)
(* The read-only functions of utils.py.                                    *)
(***************************************************************************)
\* is_do_not_translate(string_translation): validates, then tests the data
IsDoNotTranslateResult(st, row) ==
    IF ~ConfigValid
    THEN [store |-> st, exc |-> "ValueError", val |-> <<>>]
    ELSE [store |-> st, exc |-> "", val |-> <<is_do_not_translate(row.data)>>]

\* StringSegment.objects.filter(source=translation.source).values_list("string_id")
StringIds(tr) == {seg.string : seg \in Segments}

\* StringTranslation.objects.filter(locale=target_locale, translation_of_id__in=string_ids)
AllTranslations(st, tr) ==
    {r \in st : r.locale = tr.target_locale /\ r.string \in StringIds(tr)}

\* StatsResult that counts only the bare marker as do-not-translate
StatsResult_BareMarker(st, tr) ==
    LET all == AllTranslations(st, tr)
        dnt == {r \in all : r.data = get_marker}
    IN  IF ~ConfigValid
        THEN [store |-> st, exc |-> "ValueError", val |-> <<>>]
        ELSE [store |-> st, exc |-> "",
              val |-> <<[total |-> Cardinality(all),
                         do_not_translate |-> Cardinality(dnt),
                         manually_translated |-> Cardinality(all \ dnt)]>>]

\* get_source_fallback_stats
StatsResult(st, tr) ==
    LET all == AllTranslations(st, tr)
        dnt == {r \in all : is_do_not_translate(r.data)}
    IN  IF ~ConfigValid
        THEN [store |-> st, exc |-> "ValueError", val |-> <<>>]
        ELSE [store |-> st, exc |-> "",
              val |-> <<[total |-> Cardinality(all),
                         do_not_translate |-> Cardinality(dnt),
                         manually_translated |-> Cardinality(all \ dnt)]>>]

\* get_segments_do_not_translate: the segments of the source whose string
\* has a marked translation in the target locale
SegmentsDoNotTranslateResult(st, tr) ==
    LET marked == {r \in AllTranslations(st, tr) : is_do_not_translate(r.data)}
        marked_string_ids == {r.string : r \in marked}
    IN  IF ~ConfigValid
        THEN [store |-> st, exc |-> "ValueError", val |-> <<>>]
        ELSE [store |-> st, exc |-> "",
              val |-> <<{seg \in Segments : seg.string \in marked_string_ids}>>]

\* the rows the queries of a call select; validate_configuration is the
\* first statement of each function, so a call it stops has queried none
RowsQueried(op, st, tr, seg) ==
    IF ~ConfigValid THEN {}
    ELSE CASE op = "mark" -> Rows(st, seg.string, tr.target_locale, seg.context)
           [] op = "unmark" ->
                 {r \in st : r.string = seg.string /\ r.locale = tr.target_locale}
           [] op = "is_do_not_translate" -> {}
           [] OTHER -> AllTranslations(st, tr)

(***************************************************************************)
(* bulk_mark_segments.                                                     *)
(***************************************************************************)
\* an item of the iterable that is not a segment (None): mark raises
\* AttributeError on segment.string
NoSegment == [id |-> 0, string |-> "None", context |-> "None", order |-> 0]

\* one call of mark_segment_do_not_translate from the loop
MarkItem(st, tr, item, user) ==
    IF ConfigValid /\ item = NoSegment
    THEN [store |-> st, exc |-> "AttributeError", val |-> <<>>]
    ELSE MarkResult(st, tr, item, user)

\* the for loop: an exception of mark leaves the loop and the function
RECURSIVE BulkLoop(_, _, _, _, _)
BulkLoop(st, tr, segs, user, count) ==
    IF segs = <<>> THEN [store |-> st, exc |-> "", val |-> <<count>>]
    ELSE LET res == MarkItem(st, tr, Head(segs), user)
         IN  IF res.exc # ""
             THEN [store |-> res.store, exc |-> res.exc, val |-> <<>>]
             ELSE BulkLoop(res.store, tr, Tail(segs), user, count + 1)

\* bulk_mark_segments that does not hand the user on to mark
bulk_mark_segments_NoUser(st, tr, segs, user) == BulkLoop(st, tr, segs, NoUser, 0)

bulk_mark_segments(st, tr, segs, user) == BulkLoop(st, tr, segs, user, 0)

(***************************************************************************)
(* Segment resolution (the patched _get_segments_for_translation).         *)
(***************************************************************************)
\* EffectiveValue that recognises the bare marker only
EffectiveValue_BareMarkerOnly(st, locale, seg, fallback) ==
    LET rows == Rows(st, seg.string, locale, seg.context)
    IN  IF rows = {}
        THEN (IF fallback THEN StringData(seg.string) ELSE <<>>)
        ELSE IF cfg.enabled /\ TheRow(rows).data = get_marker
        THEN StringData(seg.string)
        ELSE TheRow(rows).data

\* EffectiveValue that takes every text starting with the marker for marked
EffectiveValue_AnyMarkerPrefix(st, locale, seg, fallback) ==
    LET rows == Rows(st, seg.string, locale, seg.context)
    IN  IF rows = {}
        THEN (IF fallback THEN StringData(seg.string) ELSE <<>>)
        ELSE IF cfg.enabled /\ StartsWith(TheRow(rows).data, get_marker)
        THEN StringData(seg.string)
        ELSE TheRow(rows).data

\* EffectiveValue that does not look at the feature flag
EffectiveValue_FlagIgnored(st, locale, seg, fallback) ==
    LET rows == Rows(st, seg.string, locale, seg.context)
    IN  IF rows = {}
        THEN (IF fallback THEN StringData(seg.string) ELSE <<>>)
        ELSE IF is_do_not_translate(TheRow(rows).data)
        THEN StringData(seg.string)
        ELSE TheRow(rows).data

\* the effective text of one segment
EffectiveValue(st, locale, seg, fallback) ==
    LET rows == Rows(st, seg.string, locale, seg.context)
    IN  IF rows = {}
        THEN (IF fallback THEN StringData(seg.string) ELSE <<>>)
        ELSE IF cfg.enabled /\ is_do_not_translate(TheRow(rows).data)
        THEN StringData(seg.string)
        ELSE TheRow(rows).data

\* Resolve that returns the segments sorted by their order index
Resolve_SortedByOrder(st, locale, segs, fallback) ==
    LET n == Len(segs)
        f == CHOOSE g \in [1..n -> 1..n] :
                /\ \A i, j \in 1..n : i # j => g[i] # g[j]
                /\ \A i, j \in 1..n : i < j => segs[g[i]].order <= segs[g[j]].order
    IN  [i \in 1..n |->
            [id |-> segs[f[i]].id, order |-> segs[f[i]].order,
             text |-> EffectiveValue(st, locale, segs[f[i]], fallback)]]

\* resolve: one resolved segment per segment supplied
Resolve(st, locale, segs, fallback) ==
    [i \in 1..Len(segs) |->
        [id |-> segs[i].id, order |-> segs[i].order,
         text |-> EffectiveValue(st, locale, segs[i], fallback)]]

(***************************************************************************)
(* State after construction.                                               *)
(***************************************************************************)
Procs == {1, 2}

\* what a translator may have typed before the first call: for the first
\* segment nothing or any text, for the others nothing or a plain text; a
\* row typed by a translator is attributed to that translator
InitData(seg) ==
    IF seg.id = 1 THEN {<<>>} \cup {<<t>> : t \in Texts}
    ELSE {<<>>, <<PlainText>>}

InitStores ==
    { UNION { {Row(seg.string, tr.target_locale, seg.context, f[seg][1], "u0")
                 : tr \in {t \in Translations : f[seg] # <<>>}}
              : seg \in Segments }
      : f \in {g \in [Segments -> {<<>>} \cup {<<t>> : t \in Texts \cup {PlainText}}] :
                 \A seg \in Segments : g[seg] \in InitData(seg)} }

SegLists ==
    UNION { [1..n -> Segments] : n \in 0..MaxSegs }

NoCall ==
    [op |-> "none", tr |-> 0, segs |-> <<>>, user |-> NoUser, fallback |-> FALSE,
     exc |-> "", val |-> <<>>]

Init ==
    /\ store \in InitStores
    /\ init_store = store
    /\ cfg = TestSettings(TRUE)
    /\ hist = <<>>
    /\ ret = NoCall
    /\ pc = [p \in Procs |-> "idle"]
    /\ loc = [p \in Procs |-> <<>>]

\* the window of the last two writing calls
Push(h, e) == IF h = <<>> THEN <<e>> ELSE <<e, h[1]>>

Call(op, tr, seg, user) ==
    [op |-> op, tr |-> tr.id, seg |-> seg, user |-> user, before |-> store]

(***************************************************************************)
(* One action per operation.  The actions leave hist to the specification: *)
(* Spec records the writing calls in it, SpecResolve does not.             *)
(***************************************************************************)
MarkSegment(tr, seg, user) ==
    LET res == MarkResult(store, tr, seg, user)
    IN  /\ store' = res.store
        /\ ret' = [op |-> "mark", tr |-> tr.id, segs |-> <<seg>>, user |-> user,
                   fallback |-> FALSE, exc |-> res.exc, val |-> res.val]
        /\ UNCHANGED <<cfg, init_store, pc, loc>>

UnmarkSegment(tr, seg) ==
    LET res == UnmarkResult(store, tr, seg)
    IN  /\ store' = res.store
        /\ ret' = [op |-> "unmark", tr |-> tr.id, segs |-> <<seg>>, user |-> NoUser,
                   fallback |-> FALSE, exc |-> res.exc, val |-> res.val]
        /\ UNCHANGED <<cfg, init_store, pc, loc>>

ResolveSegments(tr, segs, fallback) ==
    /\ ret' = [op |-> "resolve", tr |-> tr.id, segs |-> segs, user |-> NoUser,
               fallback |-> fallback, exc |-> "",
               val |-> Resolve(store, tr.target_locale, segs, fallback)]
    /\ UNCHANGED <<store, cfg, init_store, hist, pc, loc>>

\* mark and unmark in any order, each call recorded
Next ==
    \/ \E tr \in Translations, seg \in Segments, user \in Users :
          MarkSegment(tr, seg, user) /\ hist' = Push(hist, Call("mark", tr, seg, user))
    \/ \E tr \in Translations, seg \in Segments :
          UnmarkSegment(tr, seg) /\ hist' = Push(hist, Call("unmark", tr, seg, NoUser))

Spec == Init /\ [][Next]_vars

\* mark, unmark and resolve in any order, with the feature flag on or off
InitResolve ==
    /\ store \in InitStores
    /\ init_store = store
    /\ cfg \in {TestSettings(e) : e \in BOOLEAN}
    /\ hist = <<>>
    /\ ret = NoCall
    /\ pc = [p \in Procs |-> "idle"]
    /\ loc = [p \in Procs |-> <<>>]

NextResolve ==
    \/ \E tr \in Translations, seg \in Segments, user \in Users :
          MarkSegment(tr, seg, user) /\ UNCHANGED hist
    \/ \E tr \in Translations, seg \in Segments :
          UnmarkSegment(tr, seg) /\ UNCHANGED hist
    \/ \E tr \in Translations, segs \in SegLists, fallback \in BOOLEAN :
          ResolveSegments(tr, segs, fallback)

SpecResolve == InitResolve /\ [][NextResolve]_vars

\* mark, unmark and resolve in any order, each writing call recorded
NextVisible ==
    \/ Next
    \/ \E tr \in Translations, segs \in SegLists, fallback \in BOOLEAN :
          ResolveSegments(tr, segs, fallback)

SpecVisible == Init /\ [][NextVisible]_vars

\* the lists of items handed to bulk_mark_segments
BulkLists ==
    UNION { [1..n -> Segments \cup {NoSegment}] : n \in 0..MaxSegs }

BulkMarkSegments(tr, segs, user) ==
    LET res == bulk_mark_segments(store, tr, segs, user)
    IN  /\ store' = res.store
        /\ ret' = [op |-> "bulk_mark", tr |-> tr.id, segs |-> segs, user |-> user,
                   fallback |-> FALSE, exc |-> res.exc, val |-> res.val]
        /\ UNCHANGED <<cfg, init_store, pc, loc>>

\* bulk marks one after the other, the last call recorded
NextBulk ==
    \E tr \in Translations, segs \in BulkLists, user \in Users :
        BulkMarkSegments(tr, segs, user)
          /\ hist' = <<Call("bulk_mark", tr, segs, user)>>

SpecBulk == Init /\ [][NextBulk]_vars

(***************************************************************************)
(* The functions of utils.py under every configuration of the marker and   *)
(* the separator: not set, None, empty, or a text.                         *)
(***************************************************************************)
MarkerSettings == {Unset, None, Text(<<>>), Text(DO_NOT_TRANSLATE_MARKER)}

SeparatorSettings == {Unset, None, Text(<<>>), Text(BACKUP_SEPARATOR)}

InitConfig ==
    /\ store \in InitStores
    /\ init_store = store
    /\ cfg \in {[marker |-> m, sep |-> s, enabled |-> TRUE, perm |-> "None"]
                  : m \in MarkerSettings, s \in SeparatorSettings}
    /\ hist = <<>>
    /\ ret = NoCall
    /\ pc = [p \in Procs |-> "idle"]
    /\ loc = [p \in Procs |-> <<>>]

IsDoNotTranslate(row) ==
    LET res == IsDoNotTranslateResult(store, row)
    IN  /\ ret' = [op |-> "is_do_not_translate", tr |-> 0, segs |-> <<>>,
                   user |-> NoUser, fallback |-> FALSE, exc |-> res.exc, val |-> res.val]
        /\ UNCHANGED <<store, cfg, init_store, pc, loc>>

GetSourceFallbackStats(tr) ==
    LET res == StatsResult(store, tr)
    IN  /\ ret' = [op |-> "stats", tr |-> tr.id, segs |-> <<>>,
                   user |-> NoUser, fallback |-> FALSE, exc |-> res.exc, val |-> res.val]
        /\ UNCHANGED <<store, cfg, init_store, pc, loc>>

GetSegmentsDoNotTranslate(tr) ==
    LET res == SegmentsDoNotTranslateResult(store, tr)
    IN  /\ ret' = [op |-> "get_segments", tr |-> tr.id, segs |-> <<>>,
                   user |-> NoUser, fallback |-> FALSE, exc |-> res.exc, val |-> res.val]
        /\ UNCHANGED <<store, cfg, init_store, pc, loc>>

\* what the last call started from and which rows it queried
Queried(op, tr, seg) ==
    <<[op |-> op, before |-> store, reads |-> RowsQueried(op, store, tr, seg)]>>

NextConfig ==
    \/ \E tr \in Translations, seg \in Segments, user \in Users :
          MarkSegment(tr, seg, user) /\ hist' = Queried("mark", tr, seg)
    \/ \E tr \in Translations, seg \in Segments :
          UnmarkSegment(tr, seg) /\ hist' = Queried("unmark", tr, seg)
    \/ \E tr \in Translations, row \in store :
          IsDoNotTranslate(row) /\ hist' = Queried("is_do_not_translate", tr, NoSegment)
    \/ \E tr \in Translations :
          GetSourceFallbackStats(tr) /\ hist' = Queried("stats", tr, NoSegment)
    \/ \E tr \in Translations :
          GetSegmentsDoNotTranslate(tr) /\ hist' = Queried("get_segments", tr, NoSegment)

SpecConfig == InitConfig /\ [][NextConfig]_vars

(***************************************************************************)
(* The mark endpoint, mark_segment_do_not_translate_view.                  *)
(***************************************************************************)
Anonymous == "AnonymousUser"

\* the users that hold the permission REQUIRED_PERMISSION names
PermittedUsers == {"u1"}

RequestUsers == {Anonymous, "u1", "u2"}

\* the String table: s3 is a string no segment of the source uses
Strings == {"s1", "s2", "s3"}

TranslationIds == {1, 2}

SegmentIds == {"s1", "s3", "s9"}

\* str.lower(), letter by letter
LowerChar(c) ==
    CASE c = "T" -> "t" [] c = "R" -> "r" [] c = "U" -> "u" [] c = "E" -> "e"
      [] c = "F" -> "f" [] c = "A" -> "a" [] c = "L" -> "l" [] c = "S" -> "s"
      [] OTHER -> c

Lower(t) == [i \in 1..Len(t) |-> LowerChar(t[i])]

\* the values of the POST parameter do_not_translate: not sent (<<>>), or
\* sent with a text
ToggleParams ==
    {<<>>} \cup
    { <<t>> : t \in { <<>>,
                      <<"t", "r", "u", "e">>, <<"f", "a", "l", "s", "e">>,
                      <<"T", "r", "u", "e">>, <<"F", "A", "L", "S", "E">>,
                      <<"t", "r", "u">>, <<"y", "e", "s">> } }

\* request.POST.get("do_not_translate", "")
PostGet(param) == IF param = <<>> THEN <<>> ELSE param[1]

\* ToggleAction that takes every value but "true" for "false"
ToggleAction_Coercing(param) ==
    IF Lower(PostGet(param)) = <<"t", "r", "u", "e">> THEN "mark" ELSE "unmark"

\* what the parameter asks for, or "invalid"
ToggleAction(param) ==
    LET do_not_translate_param == Lower(PostGet(param))
    IN  IF do_not_translate_param = <<"t", "r", "u", "e">> THEN "mark"
        ELSE IF do_not_translate_param = <<"f", "a", "l", "s", "e">> THEN "unmark"
        ELSE "invalid"

\* check_permission that never asks has_perm
check_permission_NoHasPerm(user) == TRUE

\* check_permission
check_permission(user) == cfg.perm = "None" \/ user \in PermittedUsers

ErrorResponse(status, error) ==
    [status |-> status, success |-> FALSE, error |-> error, source_value |-> <<>>,
     translated_value |-> <<>>, do_not_translate |-> <<>>]

\* TranslatedValue without the test for the marker
TranslatedValue_Unfiltered(st, tr, seg) ==
    LET rows == Rows(st, seg.string, tr.target_locale, seg.context)
    IN  IF rows = {} THEN <<>> ELSE <<TheRow(rows).data>>

\* the translated value the view reports after an unmark: the data of the
\* row of the key unless it is marked
TranslatedValue(st, tr, seg) ==
    LET rows == Rows(st, seg.string, tr.target_locale, seg.context)
    IN  IF rows = {} \/ is_do_not_translate(TheRow(rows).data) THEN <<>>
        ELSE <<TheRow(rows).data>>

\* ViewResult that tests the parameter only after it has acted on it (any
\* value but "true" unmarks)
ViewResult_ValidatesLate(st, req) ==
    LET trs    == {t \in Translations : t.id = req.translation_id}
        tr     == TheRow(trs)
        segs   == {g \in Segments : g.string = req.segment_id}
        seg    == TheRow(segs)
        action == ToggleAction(req.param)
        res    == IF action = "mark" THEN MarkResult(st, tr, seg, req.user)
                  ELSE UnmarkResult(st, tr, seg)
    IN  IF req.user = Anonymous
        THEN [store |-> st, response |-> ErrorResponse(302, "login")]
        ELSE IF req.method # "POST"
        THEN [store |-> st, response |-> ErrorResponse(405, "method")]
        ELSE IF ~check_permission(req.user)
        THEN [store |-> st, response |-> ErrorResponse(403, "PermissionDenied")]
        ELSE IF trs = {}
        THEN [store |-> st, response |-> ErrorResponse(404, "Translation not found")]
        ELSE IF req.segment_id \notin Strings
        THEN [store |-> st, response |-> ErrorResponse(400, "String.DoesNotExist")]
        ELSE IF segs = {}
        THEN [store |-> st, response |-> ErrorResponse(404, "Segment not found")]
        ELSE IF Cardinality(segs) > 1
        THEN [store |-> st, response |-> ErrorResponse(400, "MultipleObjectsReturned")]
        ELSE IF action = "invalid"
        THEN [store |-> res.store,
              response |-> ErrorResponse(400, "Invalid do_not_translate parameter")]
        ELSE IF res.exc # ""
        THEN [store |-> res.store, response |-> ErrorResponse(400, res.exc)]
        ELSE [store |-> res.store,
              response |->
                [status |-> 200, success |-> TRUE, error |-> "",
                 source_value |-> <<StringData(seg.string)>>,
                 translated_value |->
                     IF action = "unmark" THEN TranslatedValue(res.store, tr, seg)
                     ELSE <<>>,
                 do_not_translate |-> <<action = "mark">>]]

\* the view: the table it leaves and the response it sends
ViewResult(st, req) ==
    LET trs    == {t \in Translations : t.id = req.translation_id}
        tr     == TheRow(trs)
        segs   == {g \in Segments : g.string = req.segment_id}
        seg    == TheRow(segs)
        action == ToggleAction(req.param)
        res    == IF action = "mark" THEN MarkResult(st, tr, seg, req.user)
                  ELSE UnmarkResult(st, tr, seg)
    IN  IF req.user = Anonymous
        THEN [store |-> st, response |-> ErrorResponse(302, "login")]
        ELSE IF req.method # "POST"
        THEN [store |-> st, response |-> ErrorResponse(405, "method")]
        ELSE IF ~check_permission(req.user)
        THEN [store |-> st, response |-> ErrorResponse(403, "PermissionDenied")]
        ELSE IF trs = {}
        THEN [store |-> st, response |-> ErrorResponse(404, "Translation not found")]
        ELSE IF req.segment_id \notin Strings
        THEN [store |-> st, response |-> ErrorResponse(400, "String.DoesNotExist")]
        ELSE IF segs = {}
        THEN [store |-> st, response |-> ErrorResponse(404, "Segment not found")]
        ELSE IF Cardinality(segs) > 1
        THEN [store |-> st, response |-> ErrorResponse(400, "MultipleObjectsReturned")]
        ELSE IF action = "invalid"
        THEN [store |-> st,
              response |-> ErrorResponse(400, "Invalid do_not_translate parameter")]
        ELSE IF res.exc # ""
        THEN [store |-> res.store, response |-> ErrorResponse(400, res.exc)]
        ELSE [store |-> res.store,
              response |->
                [status |-> 200, success |-> TRUE, error |-> "",
                 source_value |-> <<StringData(seg.string)>>,
                 translated_value |->
                     IF action = "unmark" THEN TranslatedValue(res.store, tr, seg)
                     ELSE <<>>,
                 do_not_translate |-> <<action = "mark">>]]

Requests ==
    [method : {"GET", "POST"}, user : RequestUsers, translation_id : TranslationIds,
     segment_id : SegmentIds, param : ToggleParams]

\* the endpoint is called for the first segment: tables with rows of that
\* segment only
InitView ==
    /\ store \in {st \in InitStores : \A r \in st : r.string = "s1"}
    /\ init_store = store
    /\ cfg \in {[TestSettings(TRUE) EXCEPT !.perm = perm] : perm \in {"None", "can_mark"}}
    /\ hist = <<>>
    /\ ret = NoCall
    /\ pc = [p \in Procs |-> "idle"]
    /\ loc = [p \in Procs |-> <<>>]

MarkSegmentView(req) ==
    LET res == ViewResult(store, req)
    IN  /\ store' = res.store
        /\ ret' = [op |-> "view", tr |-> req.translation_id, segs |-> <<>>,
                   user |-> req.user, fallback |-> FALSE, exc |-> "",
                   val |-> <<res.response>>]
        /\ hist' = <<[op |-> "view", request |-> req, before |-> store]>>
        /\ UNCHANGED <<cfg, init_store, pc, loc>>

NextView == \E req \in Requests : MarkSegmentView(req)

SpecView == InitView /\ [][NextView]_vars

(***************************************************************************)
(* Toggle requests that pass every check before the parameter, on tables   *)
(* that may hold a record whose encoded backup is the marker itself (a     *)
(* text typed by hand).                                                    *)
(***************************************************************************)
NestedMarker == DO_NOT_TRANSLATE_MARKER \o BACKUP_SEPARATOR \o DO_NOT_TRANSLATE_MARKER

InitToggle ==
    /\ store \in {st \in InitStores : \A r \in st : r.string = "s1"}
                   \cup { {Row("s1", tr.target_locale, "c1", NestedMarker, "u0")}
                            : tr \in Translations }
    /\ init_store = store
    /\ cfg = TestSettings(TRUE)
    /\ hist = <<>>
    /\ ret = NoCall
    /\ pc = [p \in Procs |-> "idle"]
    /\ loc = [p \in Procs |-> <<>>]

ToggleRequests ==
    {req \in Requests : /\ req.method = "POST"
                        /\ req.user # Anonymous
                        /\ req.translation_id = 1
                        /\ req.segment_id = "s1"}

NextToggle == \E req \in ToggleRequests : MarkSegmentView(req)

SpecToggle == InitToggle /\ [][NextToggle]_vars

(***************************************************************************)
(* The status endpoints, get_segment_status and get_translation_status,    *)
(* and the three endpoints together.  The string of the first segment may  *)
(* also have a translation at a context of another source.                 *)
(***************************************************************************)
OtherContext == "c9"

\* a translation of the first string typed or marked at another context
OtherRows ==
    { Row("s1", tr.target_locale, OtherContext, d, "u0")
        : tr \in Translations, d \in {DO_NOT_TRANSLATE_MARKER, PlainText} }

StoresWithOther ==
    { st \cup o : st \in InitStores, o \in {{}} \cup {{r} : r \in OtherRows} }

StatusError(status, error) ==
    [status |-> status, success |-> FALSE, error |-> error, do_not_translate |-> <<>>,
     source_text |-> <<>>, translated_text |-> <<>>]

\* get_segment_status: the response (the view writes nothing)
SegmentStatusResult(st, req) ==
    LET trs    == {t \in Translations : t.id = req.translation_id}
        tr     == TheRow(trs)
        segs   == {g \in Segments : g.string = req.segment_id}
        seg    == TheRow(segs)
        rows   == {r \in st : r.string = seg.string /\ r.locale = tr.target_locale}
        marked == IsDoNotTranslateResult(st, TheRow(rows))
    IN  IF req.user = Anonymous THEN StatusError(302, "login")
        ELSE IF ~check_permission(req.user) THEN StatusError(403, "PermissionDenied")
        ELSE IF trs = {} THEN StatusError(404, "Not found")
        ELSE IF req.segment_id \notin Strings THEN StatusError(400, "String.DoesNotExist")
        ELSE IF segs = {} THEN StatusError(404, "Not found")
        ELSE IF Cardinality(segs) > 1 THEN StatusError(400, "MultipleObjectsReturned")
        ELSE IF rows = {}
        THEN [status |-> 200, success |-> TRUE, error |-> "",
              do_not_translate |-> <<FALSE>>,
              source_text |-> <<StringData(seg.string)>>, translated_text |-> <<>>]
        ELSE IF Cardinality(rows) > 1 THEN StatusError(400, "MultipleObjectsReturned")
        ELSE IF marked.exc # "" THEN StatusError(400, marked.exc)
        ELSE [status |-> 200, success |-> TRUE, error |-> "",
              do_not_translate |-> marked.val,
              source_text |-> <<StringData(seg.string)>>,
              translated_text |-> IF marked.val[1] THEN <<>> ELSE <<TheRow(rows).data>>]

JobStatusError(status, error) ==
    [status |-> status, success |-> FALSE, error |-> error, segments |-> <<>>]

\* TranslationStatusResult that forgets the marker with a backup
TranslationStatusResult_BareMarker(st, req) ==
    LET trs    == {t \in Translations : t.id = req.translation_id}
        tr     == TheRow(trs)
        marked_translations ==
            {r \in AllTranslations(st, tr) : r.data = get_marker}
        ids    == {r.string : r \in marked_translations}
    IN  IF req.user = Anonymous THEN JobStatusError(302, "login")
        ELSE IF ~check_permission(req.user) THEN JobStatusError(403, "PermissionDenied")
        ELSE IF trs = {} THEN JobStatusError(404, "Translation not found")
        ELSE IF ~ConfigValid THEN JobStatusError(400, "ValueError")
        ELSE [status |-> 200, success |-> TRUE, error |-> "",
              segments |-> <<[s \in ids |-> [do_not_translate |-> TRUE,
                                             source_text |-> StringData(s)]]>>]

\* get_translation_status: the response (the view writes nothing)
TranslationStatusResult(st, req) ==
    LET trs    == {t \in Translations : t.id = req.translation_id}
        tr     == TheRow(trs)
        marked_translations ==
            {r \in AllTranslations(st, tr) : is_do_not_translate(r.data)}
        ids    == {r.string : r \in marked_translations}
    IN  IF req.user = Anonymous THEN JobStatusError(302, "login")
        ELSE IF ~check_permission(req.user) THEN JobStatusError(403, "PermissionDenied")
        ELSE IF trs = {} THEN JobStatusError(404, "Translation not found")
        ELSE IF ~ConfigValid THEN JobStatusError(400, "ValueError")
        ELSE [status |-> 200, success |-> TRUE, error |-> "",
              segments |-> <<[s \in ids |-> [do_not_translate |-> TRUE,
                                             source_text |-> StringData(s)]]>>]

\* the requests to the mark endpoint with the parameter absent, "true" or
\* "false"
MarkRequests ==
    {req \in Requests :
        req.param \in {<<>>, <<(<<"t", "r", "u", "e">>)>>,
                       <<(<<"f", "a", "l", "s", "e">>)>>}}

StatusRequests ==
    [user : RequestUsers, translation_id : TranslationIds, segment_id : SegmentIds]

JobStatusRequests == [user : RequestUsers, translation_id : TranslationIds]

InitEndpoints ==
    /\ store \in {st \in StoresWithOther : \A r \in st : r.string = "s1"}
    /\ init_store = store
    /\ cfg \in {[TestSettings(TRUE) EXCEPT !.perm = perm] : perm \in {"None", "can_mark"}}
    /\ hist = <<>>
    /\ ret = NoCall
    /\ pc = [p \in Procs |-> "idle"]
    /\ loc = [p \in Procs |-> <<>>]

SegmentStatusView(req) ==
    /\ ret' = [op |-> "status", tr |-> req.translation_id, segs |-> <<>>,
               user |-> req.user, fallback |-> FALSE, exc |-> "",
               val |-> <<SegmentStatusResult(store, req)>>]
    /\ hist' = <<[op |-> "status", request |-> req, before |-> store]>>
    /\ UNCHANGED <<store, cfg, init_store, pc, loc>>

TranslationStatusView(req) ==
    /\ ret' = [op |-> "job_status", tr |-> req.translation_id, segs |-> <<>>,
               user |-> req.user, fallback |-> FALSE, exc |-> "",
               val |-> <<TranslationStatusResult(store, req)>>]
    /\ hist' = <<[op |-> "job_status", request |-> req, before |-> store]>>
    /\ UNCHANGED <<store, cfg, init_store, pc, loc>>

NextEndpoints ==
    \/ \E req \in MarkRequests : MarkSegmentView(req)
    \/ \E req \in StatusRequests : SegmentStatusView(req)
    \/ \E req \in JobStatusRequests : TranslationStatusView(req)

SpecEndpoints == InitEndpoints /\ [][NextEndpoints]_vars

(***************************************************************************)
(* mark and unmark with the two queries over a whole translation,          *)
(* get_source_fallback_stats and get_segments_do_not_translate, called in  *)
(* between; the writing calls are recorded.                                *)
(***************************************************************************)
InitStats ==
    /\ store \in StoresWithOther
    /\ init_store = store
    /\ cfg = TestSettings(TRUE)
    /\ hist = <<>>
    /\ ret = NoCall
    /\ pc = [p \in Procs |-> "idle"]
    /\ loc = [p \in Procs |-> <<>>]

NextStats ==
    \/ Next
    \/ \E tr \in Translations : GetSourceFallbackStats(tr) /\ UNCHANGED hist
    \/ \E tr \in Translations : GetSegmentsDoNotTranslate(tr) /\ UNCHANGED hist

SpecStats == InitStats /\ [][NextStats]_vars

(***************************************************************************)
(* Concurrent callers of mark.  The lookup of the existing row (get) and   *)
(* the write (update_or_create) are separate database statements with no   *)
(* transaction or row lock around them, so other callers' statements may   *)
(* run in between.                                                         *)
(***************************************************************************)
\* validate_configuration, get(): the caller decides what it will write
MarkRead(p, tr, seg, user) ==
    /\ pc[p] = "idle"
    /\ LET rows == Rows(store, seg.string, tr.target_locale, seg.context)
       IN  IF ConfigValid /\ GetOutcome(rows) # "MultipleObjectsReturned"
           THEN /\ loc' = [loc EXCEPT ![p] = <<[op |-> "mark", tr |-> tr, seg |-> seg,
                                                user |-> user,
                                                data |-> MarkerWithBackup(rows)]>>]
                /\ pc' = [pc EXCEPT ![p] = "write"]
           ELSE /\ pc' = [pc EXCEPT ![p] = "done"]
                /\ UNCHANGED loc
    /\ UNCHANGED <<store, cfg, init_store, hist, ret>>

\* update_or_create(): the caller writes what it decided and returns
MarkWrite(p) ==
    /\ pc[p] = "write"
    /\ LET l == loc[p][1]
           st2 == UpdateOrCreate(store, l.seg.string, l.tr.target_locale,
                                 l.seg.context, l.data, l.user)
       IN  /\ store' = st2
           /\ ret' = [op |-> "mark", tr |-> l.tr.id, segs |-> <<l.seg>>,
                      user |-> l.user, fallback |-> FALSE, exc |-> "",
                      val |-> <<TheRow(Rows(st2, l.seg.string, l.tr.target_locale,
                                            l.seg.context))>>]
    /\ pc' = [pc EXCEPT ![p] = "done"]
    /\ UNCHANGED <<cfg, init_store, hist, loc>>

NextConc ==
    \/ \E p \in Procs, tr \in Translations, seg \in Segments, user \in Users :
          MarkRead(p, tr, seg, user)
    \/ \E p \in Procs : MarkWrite(p)

SpecConc == Init /\ [][NextConc]_vars

(***************************************************************************)
(* Concurrent callers of mark and unmark.  unmark issues two lookups (the  *)
(* bare marker, then the marker with a backup) and one write (save or      *)
(* delete of the instance it found), again with nothing around them.       *)
(***************************************************************************)
UnmarkReturn(tr, seg, n) ==
    [op |-> "unmark", tr |-> tr.id, segs |-> <<seg>>, user |-> NoUser,
     fallback |-> FALSE, exc |-> "", val |-> <<n>>]

\* validate_configuration, get(data=marker)
UnmarkReadExact(p, tr, seg) ==
    /\ pc[p] = "idle"
    /\ ConfigValid
    /\ LET exact == {r \in Rows(store, seg.string, tr.target_locale, seg.context) :
                        r.data = get_marker}
       IN  /\ GetOutcome(exact) # "MultipleObjectsReturned"
           /\ loc' = [loc EXCEPT ![p] = <<[op |-> "unmark", tr |-> tr, seg |-> seg,
                                           user |-> NoUser, found |-> exact,
                                           backup |-> <<>>]>>]
           /\ pc' = [pc EXCEPT ![p] = IF exact = {} THEN "lookup" ELSE "unwrite"]
    /\ UNCHANGED <<store, cfg, init_store, hist, ret>>

\* get(data__startswith=marker + separator); nothing found: return 0
UnmarkReadEncoded(p) ==
    /\ pc[p] = "lookup"
    /\ LET l == loc[p][1]
           encoded == {r \in Rows(store, l.seg.string, l.tr.target_locale,
                                  l.seg.context) :
                          StartsWith(r.data, get_marker \o get_backup_separator)}
       IN  /\ GetOutcome(encoded) # "MultipleObjectsReturned"
           /\ IF encoded = {}
              THEN /\ pc' = [pc EXCEPT ![p] = "done"]
                   /\ ret' = UnmarkReturn(l.tr, l.seg, 0)
                   /\ UNCHANGED loc
              ELSE /\ pc' = [pc EXCEPT ![p] = "unwrite"]
                   /\ loc' = [loc EXCEPT ![p] =
                                <<[l EXCEPT !.found = encoded,
                                            !.backup = ExtractBackup(TheRow(encoded).data)]>>]
                   /\ UNCHANGED ret
    /\ UNCHANGED <<store, cfg, init_store, hist>>

\* marked_translation.save() with the backup as data, or .delete()
UnmarkWrite(p) ==
    /\ pc[p] = "unwrite"
    /\ LET l == loc[p][1]
           marked == TheRow(l.found)
           rows == Rows(store, l.seg.string, l.tr.target_locale, l.seg.context)
       IN  /\ store' = IF Truthy(l.backup)
                       THEN (store \ rows) \cup {[marked EXCEPT !.data = l.backup[1]]}
                       ELSE store \ rows
           /\ ret' = UnmarkReturn(l.tr, l.seg, 1)
    /\ pc' = [pc EXCEPT ![p] = "done"]
    /\ UNCHANGED <<cfg, init_store, hist, loc>>

NextRace ==
    \/ \E p \in Procs, tr \in Translations, seg \in Segments, user \in Users :
          MarkRead(p, tr, seg, user)
    \/ \E p \in Procs : MarkWrite(p)
    \/ \E p \in Procs, tr \in Translations, seg \in Segments :
          UnmarkReadExact(p, tr, seg)
    \/ \E p \in Procs : UnmarkReadEncoded(p)
    \/ \E p \in Procs : UnmarkWrite(p)

SpecRace == Init /\ [][NextRace]_vars

(***************************************************************************)
(* Callers that make one call after another (as bulk_mark_segments makes   *)
(* its marks), interleaved with each other.                                *)
(***************************************************************************)
\* the call of p has returned: p is free to make the next one
NextCall(p) ==
    /\ pc[p] = "done"
    /\ pc' = [pc EXCEPT ![p] = "idle"]
    /\ loc' = [loc EXCEPT ![p] = <<>>]
    /\ UNCHANGED <<store, cfg, init_store, hist, ret>>

NextKeys ==
    \/ NextRace
    \/ \E p \in Procs : NextCall(p)

SpecKeys == Init /\ [][NextKeys]_vars

(***************************************************************************)
(* A translator's direct edit while a mark or an unmark is in flight.  The *)
(* editor saves the text typed for the key; the edit is recorded.          *)
(***************************************************************************)
\* the texts a translator types that are not marker-prefixed
ManualTexts == {t \in Texts : ~is_do_not_translate(t)}

\* caller p has read the key of (tr, seg) and has not yet written
InFlight(p, tr, seg) ==
    /\ pc[p] \in {"write", "lookup", "unwrite"}
    /\ loc[p][1].tr = tr /\ loc[p][1].seg = seg

\* the translator saves T for the key of (tr, seg) between the read and
\* the write of caller p
DirectEdit(p, tr, seg, T) ==
    /\ hist = <<>>
    /\ InFlight(p, tr, seg)
    /\ store' = UpdateOrCreate(store, seg.string, tr.target_locale, seg.context, T, "u0")
    /\ hist' = <<[op |-> "edit", tr |-> tr.id, seg |-> seg, data |-> T,
                  proc |-> p, before |-> store]>>
    /\ UNCHANGED <<cfg, init_store, ret, pc, loc>>

\* one caller of mark or unmark, and the translator
NextEdit ==
    \/ \E tr \in Translations, seg \in Segments, user \in Users :
          MarkRead(1, tr, seg, user)
    \/ MarkWrite(1)
    \/ \E tr \in Translations, seg \in Segments : UnmarkReadExact(1, tr, seg)
    \/ UnmarkReadEncoded(1)
    \/ UnmarkWrite(1)
    \/ \E tr \in Translations, seg \in Segments, T \in ManualTexts :
          DirectEdit(1, tr, seg, T)

SpecEdit == Init /\ [][NextEdit]_vars

(***************************************************************************)
(* The encoding of a backup, under every non-empty marker and separator:   *)
(* mark builds marker + separator + backup, the lookups classify it,       *)
(* unmark extracts the backup from it.                                     *)
(***************************************************************************)
NonEmptyTexts == Texts \ {<<>>}

InitCodec ==
    /\ store = {}
    /\ init_store = store
    /\ cfg \in {[marker |-> Text(m), sep |-> Text(sp), enabled |-> TRUE, perm |-> "None"]
                  : m \in NonEmptyTexts, sp \in NonEmptyTexts}
    /\ hist = <<>>
    /\ ret = NoCall
    /\ pc = [p \in Procs |-> "idle"]
    /\ loc = [p \in Procs |-> <<>>]

\* encode backup_data as mark does, classify and decode it as unmark does
EncodeDecode(backup_data) ==
    LET marker_with_backup == get_marker \o get_backup_separator \o backup_data
    IN  /\ ret' = [op |-> "codec", tr |-> 0, segs |-> <<>>, user |-> NoUser,
                   fallback |-> FALSE, exc |-> "",
                   val |-> <<[data |-> marker_with_backup,
                              marked |-> is_do_not_translate(marker_with_backup),
                              backup |-> ExtractBackup(marker_with_backup)]>>]
        /\ hist' = <<[op |-> "codec", backup_data |-> backup_data]>>
        /\ UNCHANGED <<store, cfg, init_store, pc, loc>>

NextCodec == \E backup_data \in Texts : EncodeDecode(backup_data)

SpecCodec == InitCodec /\ [][NextCodec]_vars

(***************************************************************************)
(* Every operation on tables that may hold a text typed by hand that       *)
(* begins with marker + separator: mark, unmark, is_do_not_translate,      *)
(* get_source_fallback_stats and resolve.                                  *)
(***************************************************************************)
NextCollision ==
    \/ \E tr \in Translations, seg \in Segments, user \in Users :
          MarkSegment(tr, seg, user) /\ hist' = <<Call("mark", tr, seg, user)>>
    \/ \E tr \in Translations, seg \in Segments :
          UnmarkSegment(tr, seg) /\ hist' = <<Call("unmark", tr, seg, NoUser)>>
    \/ \E row \in store :
          IsDoNotTranslate(row)
            /\ hist' = <<[op |-> "is_do_not_translate", row |-> row, before |-> store]>>
    \/ \E tr \in Translations :
          GetSourceFallbackStats(tr) /\ hist' = <<[op |-> "stats", before |-> store]>>
    \/ \E tr \in Translations, segs \in SegLists, fallback \in BOOLEAN :
          ResolveSegments(tr, segs, fallback)

SpecCollision == Init /\ [][NextCollision]_vars

(***************************************************************************)
(* mark and unmark on tables that also hold records of the first string at *)
(* another context and in another locale.                                  *)
(***************************************************************************)
OtherLocale == "de"

\* a translation of the first string, typed or marked, in another locale
OtherLocaleRows ==
    { Row("s1", OtherLocale, "c1", d, "u0") : d \in {DO_NOT_TRANSLATE_MARKER, PlainText} }

InitFrame ==
    /\ store \in { st \cup l : st \in StoresWithOther,
                               l \in {{}} \cup {{r} : r \in OtherLocaleRows} }
    /\ init_store = store
    /\ cfg = TestSettings(TRUE)
    /\ hist = <<>>
    /\ ret = NoCall
    /\ pc = [p \in Procs |-> "idle"]
    /\ loc = [p \in Procs |-> <<>>]

NextFrame ==
    \/ \E tr \in Translations, seg \in Segments, user \in Users :
          MarkSegment(tr, seg, user) /\ hist' = <<Call("mark", tr, seg, user)>>
    \/ \E tr \in Translations, seg \in Segments :
          UnmarkSegment(tr, seg) /\ hist' = <<Call("unmark", tr, seg, NoUser)>>

SpecFrame == InitFrame /\ [][NextFrame]_vars

(***************************************************************************)
(* Notation for the properties.                                            *)
(***************************************************************************)
TrOf(id) == CHOOSE t \in Translations : t.id = id

\* the data stored for a segment's key: {} when there is no row
DataOf(st, tr, seg) ==
    {r.data : r \in Rows(st, seg.string, tr.target_locale, seg.context)}

\* marker + separator + backup
Encoded(b) == get_marker \o get_backup_separator \o b

\* the last writing call was op, on the key of (tr, seg)
LastWas(op, tr, seg) ==
    /\ Len(hist) >= 1
    /\ hist[1].op = op /\ hist[1].tr = tr.id /\ hist[1].seg = seg

\* the last two writing calls were op2 then op1, both on the key of (tr, seg)
LastTwoWere(op2, op1, tr, seg) ==
    /\ Len(hist) = 2
    /\ LastWas(op1, tr, seg)
    /\ hist[2].op = op2 /\ hist[2].tr = tr.id /\ hist[2].seg = seg

(***************************************************************************)
(* Properties of mark and unmark.                                          *)
(***************************************************************************)

\* C1: a key that held a manual translation T (not marker-prefixed) before
\* the first call holds, after any sequence of mark and unmark calls, a row
\* whose data is T or marker + separator + T.
C1_NoDataLoss ==
    \A tr \in Translations, seg \in Segments :
        \A T \in DataOf(init_store, tr, seg) :
            ~is_do_not_translate(T) =>
                DataOf(store, tr, seg) \in {{T}, {Encoded(T)}}

\* C2: mark followed by unmark on a key that held a manual translation T
\* (not marker-prefixed, the empty text included) leaves a row for the key
\* whose data is exactly T.
C2_RoundTrip ==
    \A tr \in Translations, seg \in Segments :
        LastTwoWere("mark", "unmark", tr, seg) =>
            \A T \in DataOf(hist[2].before, tr, seg) :
                ~is_do_not_translate(T) => DataOf(store, tr, seg) = {T}

\* C3: whatever the key held before (nothing, manual text, the bare marker,
\* the marker with a backup), a second mark right after a mark leaves the
\* data of the row as the first mark left it; a mark on a row that encodes
\* a backup leaves that backup in place.
C3_MarkIdempotent ==
    \A tr \in Translations, seg \in Segments :
        /\ LastTwoWere("mark", "mark", tr, seg) =>
              DataOf(store, tr, seg) = DataOf(hist[1].before, tr, seg)
        /\ LastWas("mark", tr, seg) =>
              \A D \in DataOf(hist[1].before, tr, seg) :
                  StartsWith(D, get_marker \o get_backup_separator) =>
                      DataOf(store, tr, seg) = {D}

\* C4: when two concurrent callers have both finished marking the same key,
\* which held a manual translation T, the data of the row is
\* marker + separator + T, in whatever order their reads and writes ran.
C4_ConcurrentMarkKeepsBackup ==
    (\A p \in Procs : pc[p] = "done" /\ loc[p] # <<>>) =>
        \A tr \in Translations, seg \in Segments :
            (\A p \in Procs : loc[p][1].tr = tr /\ loc[p][1].seg = seg) =>
                \A T \in DataOf(init_store, tr, seg) :
                    ~is_do_not_translate(T) =>
                        DataOf(store, tr, seg) = {Encoded(T)}

(***************************************************************************)
(* Properties of resolve.                                                  *)
(***************************************************************************)
\* the row resolve read for the i-th segment it was given (a set: {} if none)
RowsRead(i) == Rows(store, ret.segs[i].string, TrOf(ret.tr).target_locale,
                    ret.segs[i].context)

\* C5: with the feature flag enabled, resolve returns for every segment
\* whose row is marker-prefixed (bare marker or marker with a backup) the
\* source text of the segment's string, and neither the row's data nor the
\* backup it encodes.
C5_MarkedResolvesToSource ==
    (ret.op = "resolve" /\ cfg.enabled) =>
        \A i \in 1..Len(ret.segs) :
            \A r \in RowsRead(i) :
                is_do_not_translate(r.data) =>
                    /\ ret.val[i].text = StringData(ret.segs[i].string)
                    /\ ret.val[i].text # r.data
                    /\ ~is_do_not_translate(ret.val[i].text)
                    /\ ExtractBackup(r.data) # <<ret.val[i].text>>

\* a resolve, with the flag enabled, of one segment holding the bare marker
\* and one holding the marker with a backup
C5_Witness ==
    /\ ret.op = "resolve" /\ cfg.enabled
    /\ \E i, j \in 1..Len(ret.segs) :
          /\ \E r \in RowsRead(i) : r.data = get_marker
          /\ \E r \in RowsRead(j) : r.data = Encoded(PlainText)
          /\ ret.val[i].text = StringData(ret.segs[i].string)
          /\ ret.val[j].text = StringData(ret.segs[j].string)

\* C8: resolve returns for every segment whose row exists and is not
\* marker-prefixed the row's data verbatim, also when other segments of the
\* same call are marked.
C8_UnmarkedResolvesVerbatim ==
    ret.op = "resolve" =>
        \A i \in 1..Len(ret.segs) :
            \A r \in RowsRead(i) :
                ~is_do_not_translate(r.data) => ret.val[i].text = r.data

\* a resolve of one marked segment and one segment holding manual text
C8_Witness ==
    /\ ret.op = "resolve" /\ cfg.enabled
    /\ \E i, j \in 1..Len(ret.segs) :
          /\ \E r \in RowsRead(i) : is_do_not_translate(r.data)
          /\ \E r \in RowsRead(j) :
                /\ ~is_do_not_translate(r.data)
                /\ r.data # StringData(ret.segs[j].string)
                /\ ret.val[j].text = r.data

C6_MarkBacksUpManual ==
    \A tr \in Translations, seg \in Segments :
        LastWas("mark", tr, seg) =>
            \A D \in DataOf(hist[1].before, tr, seg) :
                ~is_do_not_translate(D) =>
                    /\ DataOf(store, tr, seg) = {Encoded(D)}
                    /\ Cardinality(Rows(store, seg.string, tr.target_locale,
                                        seg.context)) = 1
                    /\ Cardinality(store) = Cardinality(hist[1].before)

\* a mark that has just backed up a manual text which itself starts with the
\* marker (but not with marker + separator), next to another row
C6_Witness ==
    \E tr \in Translations, seg \in Segments :
        /\ LastWas("mark", tr, seg)
        /\ \E D \in DataOf(hist[1].before, tr, seg) :
              /\ ~is_do_not_translate(D)
              /\ StartsWith(D, get_marker)
              /\ DataOf(store, tr, seg) = {Encoded(D)}
        /\ Cardinality(store) = 2

\* C7: mark on a key that has no row creates a row whose data is the bare
\* marker; the unmark that follows removes the row, so that the key has no
\* row again.
C7_MarkUnmarkFromAbsent ==
    \A tr \in Translations, seg \in Segments :
        /\ (LastWas("mark", tr, seg) /\ DataOf(hist[1].before, tr, seg) = {}) =>
              /\ DataOf(store, tr, seg) = {get_marker}
              /\ store \ hist[1].before =
                    Rows(store, seg.string, tr.target_locale, seg.context)
        /\ (LastTwoWere("mark", "unmark", tr, seg)
              /\ DataOf(hist[2].before, tr, seg) = {}) =>
              /\ DataOf(store, tr, seg) = {}
              /\ store = hist[2].before

\* an unmark that has just removed the bare marker written by the mark
\* before it, on a key that had no row
C7_Witness ==
    \E tr \in Translations, seg \in Segments :
        /\ LastTwoWere("mark", "unmark", tr, seg)
        /\ DataOf(hist[2].before, tr, seg) = {}
        /\ DataOf(hist[1].before, tr, seg) = {get_marker}
        /\ DataOf(store, tr, seg) = {}
        /\ ret.op = "unmark" /\ ret.val = <<1>>

\* C10: unmark on a marker-prefixed row: data marker + separator + B (any B)
\* leaves the row in place with data exactly B; data equal to the bare
\* marker gets the row deleted; no other row is created or deleted.
C10_UnmarkRestoresOrDeletes ==
    \A tr \in Translations, seg \in Segments :
        LastWas("unmark", tr, seg) =>
            \A r \in Rows(hist[1].before, seg.string, tr.target_locale, seg.context) :
                is_do_not_translate(r.data) =>
                    IF r.data = get_marker
                    THEN store = hist[1].before \ {r}
                    ELSE store = (hist[1].before \ {r}) \cup
                            {[r EXCEPT !.data =
                                SubSeq(r.data,
                                       Len(get_marker) + Len(get_backup_separator) + 1,
                                       Len(r.data))]}

\* C11: unmark on a key that has no row, or whose row is not
\* marker-prefixed, returns 0 and leaves the table as it was.
C11_UnmarkNotFound ==
    \A tr \in Translations, seg \in Segments :
        (/\ LastWas("unmark", tr, seg)
         /\ \A D \in DataOf(hist[1].before, tr, seg) : ~is_do_not_translate(D)) =>
            /\ ret.op = "unmark" /\ ret.exc = "" /\ ret.val = <<0>>
            /\ store = hist[1].before

\* an unmark that has just returned 0 on a row holding manual text that
\* starts with the marker alone
C11_Witness ==
    \E tr \in Translations, seg \in Segments :
        /\ LastWas("unmark", tr, seg)
        /\ \E D \in DataOf(hist[1].before, tr, seg) :
              ~is_do_not_translate(D) /\ StartsWith(D, get_marker)
        /\ ret.val = <<0>>
        /\ store = hist[1].before

(***************************************************************************)
(* Properties of concurrent mark and unmark calls.                         *)
(***************************************************************************)
\* the table a call leaves when it runs alone on the table st
Apply(st, l) ==
    IF l.op = "mark" THEN MarkResult(st, l.tr, l.seg, l.user).store
    ELSE UnmarkResult(st, l.tr, l.seg).store

\* the tables the calls of the two callers leave when run one after the other
SerialOutcomes ==
    { Apply(Apply(init_store, loc[1][1]), loc[2][1]),
      Apply(Apply(init_store, loc[2][1]), loc[1][1]) }

AllDone == \A p \in Procs : pc[p] = "done" /\ loc[p] # <<>>

\* C12: when concurrent mark and unmark calls on one key have all returned,
\* the table is what running those calls in some serial order leaves.
C12_Serializable ==
    (AllDone /\ loc[1][1].tr = loc[2][1].tr /\ loc[1][1].seg = loc[2][1].seg) =>
        store \in SerialOutcomes

\* the text that follows marker + separator in data
BackupPart(data) ==
    SubSeq(data, Len(get_marker) + Len(get_backup_separator) + 1, Len(data))

\* C13: starting from keys that have no row or hold manual text that is not
\* marker-prefixed, no interleaving of concurrent mark and unmark calls
\* leaves a row whose encoded backup is itself marker-prefixed.
C13_NoMarkerAsBackup ==
    (\A r \in init_store : ~is_do_not_translate(r.data)) =>
        \A r \in store :
            StartsWith(r.data, get_marker \o get_backup_separator) =>
                ~is_do_not_translate(BackupPart(r.data))

\* two callers have marked the same key, which held manual text: the first
\* wrote marker + separator + text before the second read the row, and the
\* second wrote the bare marker; a row of another key still encodes a backup
C13_Witness ==
    /\ \A r \in init_store : ~is_do_not_translate(r.data)
    /\ AllDone
    /\ loc[1][1].op = "mark" /\ loc[2][1].op = "mark"
    /\ loc[1][1].seg = loc[2][1].seg
    /\ \E T \in DataOf(init_store, loc[1][1].tr, loc[1][1].seg) :
          /\ T # <<>>
          /\ {loc[1][1].data, loc[2][1].data} = {Encoded(T), get_marker}
    /\ DataOf(store, loc[1][1].tr, loc[1][1].seg) = {get_marker}

(***************************************************************************)
(* Properties of resolve after mark and unmark.                            *)
(***************************************************************************)

\* C14: for a segment with manual translation T and source text S, resolve
\* yields T before any mark, S once a mark of the segment has returned, and
\* T again once the unmark that follows that mark has returned.
C14_VisibleToNextResolve ==
    ret.op = "resolve" =>
        \A i \in 1..Len(ret.segs) :
            LET seg == ret.segs[i]
                tr  == TrOf(ret.tr)
            IN  /\ hist = <<>> =>
                      \A T \in DataOf(store, tr, seg) :
                          ~is_do_not_translate(T) => ret.val[i].text = T
                /\ LastWas("mark", tr, seg) =>
                      \A T \in DataOf(hist[1].before, tr, seg) :
                          ~is_do_not_translate(T) =>
                              ret.val[i].text = StringData(seg.string)
                /\ LastTwoWere("mark", "unmark", tr, seg) =>
                      \A T \in DataOf(hist[2].before, tr, seg) :
                          ~is_do_not_translate(T) => ret.val[i].text = T

\* C15: with the feature flag disabled, resolve returns for every segment
\* that has a row the data of that row as it is: for a marked row the bare
\* marker or marker + separator + backup, not the source text.
C15_DisabledPassesThrough ==
    (ret.op = "resolve" /\ ~cfg.enabled) =>
        \A i \in 1..Len(ret.segs) :
            \A r \in RowsRead(i) : ret.val[i].text = r.data

\* a resolve, with the flag disabled, of one segment holding the bare marker
\* and one holding the marker with a backup
C15_Witness ==
    /\ ret.op = "resolve" /\ ~cfg.enabled
    /\ \E i, j \in 1..Len(ret.segs) :
          /\ \E r \in RowsRead(i) : r.data = get_marker
          /\ \E r \in RowsRead(j) : r.data = Encoded(PlainText)
          /\ ret.val[i].text = get_marker
          /\ ret.val[j].text = Encoded(PlainText)

(***************************************************************************)
(* Properties of bulk_mark_segments.                                       *)
(***************************************************************************)
\* the table after mark has been called for the first k items, in list order
RECURSIVE MarksInOrder(_, _, _, _, _)
MarksInOrder(st, tr, segs, user, k) ==
    IF k = 0 THEN st
    ELSE MarkResult(MarksInOrder(st, tr, segs, user, k - 1), tr, segs[k], user).store

\* the positions of the items on which mark fails
Failing(segs) == {i \in 1..Len(segs) : segs[i] = NoSegment}

FirstFailing(segs) == CHOOSE i \in Failing(segs) : \A j \in Failing(segs) : i <= j

LastWasBulk == Len(hist) >= 1 /\ hist[1].op = "bulk_mark" /\ ret.op = "bulk_mark"

\* C16: when mark fails on the i-th item of a batch, the marks of the items
\* before it are kept, no later item is marked, and the caller is told the
\* number i - 1 of items that succeeded.
C16_BulkPartialFailure ==
    (LastWasBulk /\ Failing(ret.segs) # {}) =>
        LET i == FirstFailing(ret.segs)
        IN  /\ store = MarksInOrder(hist[1].before, TrOf(ret.tr), ret.segs,
                                    ret.user, i - 1)
            /\ ret.val = <<i - 1>>

\* C17: when no mark fails, bulk_mark_segments over n items returns n and
\* leaves the table that n calls of mark, in list order and with the same
\* user, leave; an item listed twice is marked twice and counted twice.
C17_BulkIsSequentialMarks ==
    (LastWasBulk /\ Failing(ret.segs) = {}) =>
        /\ ret.exc = ""
        /\ ret.val = <<Len(ret.segs)>>
        /\ store = MarksInOrder(hist[1].before, TrOf(ret.tr), ret.segs, ret.user,
                                Len(ret.segs))

\* a bulk mark, by a user, of one segment listed twice whose row held manual
\* text: 2 is returned and the row was marked twice
C17_Witness ==
    /\ LastWasBulk
    /\ Len(ret.segs) = 2 /\ ret.segs[1] = ret.segs[2] /\ ret.segs[1] \in Segments
    /\ ret.user # NoUser
    /\ ret.val = <<2>>
    /\ \E T \in DataOf(hist[1].before, TrOf(ret.tr), ret.segs[1]) :
          ~is_do_not_translate(T)
    /\ DataOf(store, TrOf(ret.tr), ret.segs[1]) = {get_marker}

(***************************************************************************)
(* Properties of the value unmark returns.                                 *)
(***************************************************************************)
\* what an unmark of (tr, seg) did, read off the tables before and after it
Outcome(before, after, tr, seg) ==
    IF after = before THEN "NotFound"
    ELSE IF Rows(after, seg.string, tr.target_locale, seg.context) = {} THEN "Deleted"
    ELSE "Restored"

\* C18: the value unmark returns tells which of Restored, Deleted and
\* NotFound took place: two unmark calls with different outcomes return
\* different values.
C18_OutcomeDistinguishable ==
    \A tr \in Translations, seg \in Segments, seg2 \in Segments :
        LastWas("unmark", tr, seg) =>
            LET other == UnmarkResult(hist[1].before, tr, seg2)
            IN  Outcome(hist[1].before, store, tr, seg)
                    # Outcome(hist[1].before, other.store, tr, seg2)
                => ret.val # other.val

(***************************************************************************)
(* Properties of the configuration check.                                  *)
(***************************************************************************)
ConfigOps == {"mark", "unmark", "is_do_not_translate", "stats", "get_segments"}

\* a setting given as None or as the empty string
SetEmpty(setting) == setting = None \/ setting = Text(<<>>)

\* the call stopped before any query: ValueError, no result, no row
\* queried, the table as it was
FailedEarly ==
    /\ ret.exc = "ValueError"
    /\ ret.val = <<>>
    /\ hist[1].reads = {}
    /\ store = hist[1].before

ReachedToggle ==
    /\ hist # <<>>
    /\ ret.op = "view"
    /\ hist[1].request.method = "POST"
    /\ hist[1].request.user # Anonymous
    /\ cfg.perm = "None" \/ hist[1].request.user \in PermittedUsers
    /\ \E tr \in Translations : tr.id = hist[1].request.translation_id
    /\ \E seg \in Segments : seg.string = hist[1].request.segment_id

UpperChar(c) ==
    CASE c = "t" -> "T" [] c = "r" -> "R" [] c = "u" -> "U" [] c = "e" -> "E"
      [] c = "f" -> "F" [] c = "a" -> "A" [] c = "l" -> "L" [] c = "s" -> "S"

\* t is the word w up to the case of its letters
SameIgnoringCase(t, w) ==
    /\ Len(t) = Len(w)
    /\ \A i \in 1..Len(w) : t[i] \in {w[i], UpperChar(w[i])}

SegOfString(s) == CHOOSE seg \in Segments : seg.string = s

Authorized(op) ==
    /\ hist # <<>>
    /\ ret.op = op
    /\ hist[1].request.user # Anonymous
    /\ cfg.perm = "None" \/ hist[1].request.user \in PermittedUsers
    /\ op = "view" => hist[1].request.method = "POST"

\* C21: when the translation, the string, or the segment joining them does
\* not exist, the mark endpoint and the status endpoint answer an
\* authorized caller with 404 and change no record.
C21_MissingIs404 ==
    \A op \in {"view", "status"} :
        (/\ Authorized(op)
         /\ \/ hist[1].request.translation_id \notin {tr.id : tr \in Translations}
            \/ hist[1].request.segment_id \notin Strings
            \/ hist[1].request.segment_id \notin {seg.string : seg \in Segments})
            => /\ ret.val[1].status = 404
               /\ store = hist[1].before

\* the last request was made to the endpoint op by a logged-in user, as a
\* POST if to the mark endpoint
LoggedIn(op) ==
    /\ hist # <<>>
    /\ ret.op = op
    /\ hist[1].request.user # Anonymous
    /\ op = "view" => hist[1].request.method = "POST"

\* C22: with no required permission configured every user is authorized;
\* with one configured, a user lacking it is answered 403 by each of the
\* three endpoints and no record is changed, and a user holding it is
\* authorized.
C22_AccessGate ==
    \A op \in {"view", "status", "job_status"} :
        LoggedIn(op) =>
            IF cfg.perm # "None" /\ hist[1].request.user \notin PermittedUsers
            THEN /\ ret.val[1].status = 403
                 /\ ~ret.val[1].success
                 /\ store = hist[1].before
            ELSE ret.val[1].status # 403

\* a user without the permission asked the mark endpoint to mark an
\* existing segment, which a mark would have changed, and got 403
C22_Witness ==
    /\ LoggedIn("view")
    /\ cfg.perm # "None"
    /\ hist[1].request.user \notin PermittedUsers
    /\ hist[1].request.translation_id = 1
    /\ hist[1].request.segment_id = "s1"
    /\ hist[1].request.param = <<(<<"t", "r", "u", "e">>)>>
    /\ ret.val[1].status = 403
    /\ MarkResult(store, TrOf(1), SegOfString("s1"), hist[1].request.user).store # store

(***************************************************************************)
(* Properties of a successful toggle.                                      *)
(***************************************************************************)
\* data is the marker, or the marker and the separator and a backup
MarkerPrefixed(data) ==
    data = DO_NOT_TRANSLATE_MARKER
      \/ StartsWith(data, DO_NOT_TRANSLATE_MARKER \o BACKUP_SEPARATOR)

\* the last request was a toggle answered with success
ToggleSucceeded ==
    /\ hist # <<>>
    /\ ret.op = "view"
    /\ ret.val[1].status = 200

\* the data now stored for the key of the last toggle: {} or one text
ToggledData ==
    DataOf(store, TrOf(hist[1].request.translation_id),
           SegOfString(hist[1].request.segment_id))

\* the record the last toggle started from encoded a backup that is itself
\* marker-prefixed
BackupWasMarked ==
    \E d \in DataOf(hist[1].before, TrOf(hist[1].request.translation_id),
                    SegOfString(hist[1].request.segment_id)) :
        /\ StartsWith(d, DO_NOT_TRANSLATE_MARKER \o BACKUP_SEPARATOR)
        /\ MarkerPrefixed(SplitAfterFirst(d, BACKUP_SEPARATOR))

\* C23 as stated: a successful toggle returns the source text; with
\* on=true the record is left marker-prefixed and no translated value is
\* returned; with on=false the record is left absent or not
\* marker-prefixed and the translated value is the text now stored, or
\* null if no record remains; the translated value is never
\* marker-prefixed.
C23_ToggleLeavesUnmarked ==
    ToggleSucceeded =>
        LET resp == ret.val[1]
        IN  /\ resp.source_value = <<StringData(hist[1].request.segment_id)>>
            /\ resp.do_not_translate = <<TRUE>> =>
                  /\ ToggledData # {}
                  /\ \A d \in ToggledData : MarkerPrefixed(d)
                  /\ resp.translated_value = <<>>
            /\ resp.do_not_translate = <<FALSE>> =>
                  /\ \A d \in ToggledData : ~MarkerPrefixed(d)
                  /\ ToggledData = {} => resp.translated_value = <<>>
                  /\ \A d \in ToggledData : resp.translated_value = <<d>>
            /\ resp.translated_value # <<>> => ~MarkerPrefixed(resp.translated_value[1])

\* C23, amended: as stated, except that with on=false a record whose
\* encoded backup is itself marker-prefixed is restored to that backup and
\* so is still marker-prefixed, and for it no translated value is returned.
C23_ToggleResponse ==
    ToggleSucceeded =>
        LET resp == ret.val[1]
        IN  /\ resp.source_value = <<StringData(hist[1].request.segment_id)>>
            /\ resp.do_not_translate = <<TRUE>> =>
                  /\ ToggledData # {}
                  /\ \A d \in ToggledData : MarkerPrefixed(d)
                  /\ resp.translated_value = <<>>
            /\ (resp.do_not_translate = <<FALSE>> /\ ~BackupWasMarked) =>
                  /\ \A d \in ToggledData : ~MarkerPrefixed(d)
                  /\ ToggledData = {} => resp.translated_value = <<>>
                  /\ \A d \in ToggledData : resp.translated_value = <<d>>
            /\ (resp.do_not_translate = <<FALSE>> /\ BackupWasMarked) =>
                  /\ ToggledData # {}
                  /\ \A d \in ToggledData : MarkerPrefixed(d)
                  /\ resp.translated_value = <<>>
            /\ resp.translated_value # <<>> => ~MarkerPrefixed(resp.translated_value[1])

\* an unmark through the endpoint that restored a backed-up text and
\* returned it
C23_Witness ==
    /\ ToggleSucceeded
    /\ ret.val[1].do_not_translate = <<FALSE>>
    /\ store # hist[1].before
    /\ ret.val[1].translated_value = <<PlainText>>
    /\ ToggledData = {PlainText}

(***************************************************************************)
(* Properties of the status endpoints.                                     *)
(***************************************************************************)
\* the last request, to the endpoint op, came from an authorized caller
\* and named an existing translation
FoundTranslation(op) ==
    /\ Authorized(op)
    /\ hist[1].request.translation_id \in {tr.id : tr \in Translations}

\* C24: status reports marked = true exactly when the record at the
\* segment's own (string, locale, context) key is marker-prefixed, and the
\* translated text is that record's data exactly when it exists and is not
\* marked, whatever records the string has at other contexts.
C24_StatusOfOwnKey ==
    (/\ FoundTranslation("status")
     /\ hist[1].request.segment_id \in {seg.string : seg \in Segments})
        => LET own == DataOf(store, TrOf(hist[1].request.translation_id),
                             SegOfString(hist[1].request.segment_id))
               resp == ret.val[1]
           IN  /\ resp.status = 200
               /\ resp.do_not_translate = <<\E d \in own : MarkerPrefixed(d)>>
               /\ resp.source_text = <<StringData(hist[1].request.segment_id)>>
               /\ \A d \in own : resp.translated_text =
                                    IF MarkerPrefixed(d) THEN <<>> ELSE <<d>>
               /\ own = {} => resp.translated_text = <<>>

JobRecords(st, tr) ==
    {r \in st : /\ r.locale = tr.target_locale
                /\ \E seg \in Segments : seg.string = r.string}

\* the stats of a table, as get_source_fallback_stats returns them
Stats(st, tr) == StatsResult(st, tr).val[1]

\* C26: stats returns total = the number of records of the job's strings
\* in the target locale, do_not_translate = the number of those that are
\* marker-prefixed and manually_translated = the number that are not, so
\* the two add up to total; a mark on a manual record moves one unit from
\* manual to do-not-translate, and the unmark after it moves the unit back
\* or takes it out of total.
C26_StatsCount ==
    /\ ret.op = "stats" =>
          LET recs == JobRecords(store, TrOf(ret.tr))
              marked == {r \in recs : MarkerPrefixed(r.data)}
          IN  /\ ret.exc = ""
              /\ ret.val[1].total = Cardinality(recs)
              /\ ret.val[1].do_not_translate = Cardinality(marked)
              /\ ret.val[1].manually_translated = Cardinality(recs \ marked)
              /\ ret.val[1].total =
                    ret.val[1].do_not_translate + ret.val[1].manually_translated
    /\ \A tr \in Translations, seg \in Segments :
          /\ (/\ LastWas("mark", tr, seg)
              /\ \E T \in DataOf(hist[1].before, tr, seg) : ~MarkerPrefixed(T)) =>
                LET b == Stats(hist[1].before, tr)
                    a == Stats(store, tr)
                IN  /\ a.total = b.total
                    /\ a.do_not_translate = b.do_not_translate + 1
                    /\ a.manually_translated = b.manually_translated - 1
          /\ (/\ LastTwoWere("mark", "unmark", tr, seg)
              /\ \E T \in DataOf(hist[2].before, tr, seg) : ~MarkerPrefixed(T)) =>
                LET b == Stats(hist[2].before, tr)
                    a == Stats(store, tr)
                IN  /\ a.do_not_translate = b.do_not_translate
                    /\ \/ a = b
                       \/ /\ a.total = b.total - 1
                          /\ a.manually_translated = b.manually_translated - 1

\* stats called on a table that holds both a marked and a manual record
C26_Witness ==
    /\ ret.op = "stats"
    /\ ret.val[1].do_not_translate >= 1
    /\ ret.val[1].manually_translated >= 1
    /\ \E r \in store : r.data = Encoded(PlainText)

\* the segments get_segments_do_not_translate returns for a table
MarkedSegments(st, tr) == SegmentsDoNotTranslateResult(st, tr).val[1]

\* C27: markedSegments returns exactly the segments of the source whose
\* string has a marker-prefixed record in the target locale; a segment is
\* in the set when mark has returned for it and out of the set when unmark
\* has returned for it.
C27_MarkedSegmentsFollowCalls ==
    /\ ret.op = "get_segments" =>
          ret.val = <<{seg \in Segments :
                         \E r \in JobRecords(store, TrOf(ret.tr)) :
                             r.string = seg.string /\ MarkerPrefixed(r.data)}>>
    /\ \A tr \in Translations, seg \in Segments :
          /\ (LastWas("mark", tr, seg) /\ ret.op = "mark" /\ ret.exc = "") =>
                seg \in MarkedSegments(store, tr)
          /\ (LastWas("unmark", tr, seg) /\ ret.op = "unmark" /\ ret.exc = "") =>
                seg \notin MarkedSegments(store, tr)

(***************************************************************************)
(* Properties of direct edits.                                             *)
(***************************************************************************)
\* C28: a text T, not marker-prefixed, that a translator writes to a key
\* between the read and the write of a mark or an unmark on that key is not
\* lost: once the call has finished the record holds T or
\* marker + separator + T.
C28_DirectEditSurvives ==
    (/\ hist # <<>>
     /\ hist[1].op = "edit"
     /\ pc[hist[1].proc] = "done")
        => DataOf(store, TrOf(hist[1].tr), hist[1].seg)
              \in {{hist[1].data}, {Encoded(hist[1].data)}}

(***************************************************************************)
(* Properties of the encoding.                                             *)
(***************************************************************************)
\* C29: for every non-empty marker and separator and every backup b, also
\* one that contains the separator, marker + separator + b is classified
\* as marker-prefixed and decoding it returns exactly b.
C29_CodecRoundTrip ==
    ret.op = "codec" =>
        /\ ret.val[1].marked
        /\ ret.val[1].backup = <<hist[1].backup_data>>

StartedManual(tr, seg) ==
    \A T \in DataOf(init_store, tr, seg) : ~MarkerPrefixed(T)

\* C31: on a key that mark and unmark have brought from a manual text that
\* is not marker-prefixed, a second unmark right after an unmark changes
\* nothing and reports 0 (not found); after any unmark the key is absent
\* or not marker-prefixed.
C31_UnmarkRetrySafe ==
    \A tr \in Translations, seg \in Segments :
        StartedManual(tr, seg) =>
            /\ LastTwoWere("unmark", "unmark", tr, seg) =>
                  /\ store = hist[1].before
                  /\ ret.val = <<0>>
            /\ LastWas("unmark", tr, seg) =>
                  \A d \in DataOf(store, tr, seg) : ~MarkerPrefixed(d)

\* an unmark repeated after an unmark that restored the backed-up text
C31_Witness ==
    \E tr \in Translations, seg \in Segments :
        /\ StartedManual(tr, seg)
        /\ LastTwoWere("unmark", "unmark", tr, seg)
        /\ DataOf(hist[2].before, tr, seg) = {Encoded(PlainText)}
        /\ DataOf(hist[1].before, tr, seg) = {PlainText}
        /\ DataOf(store, tr, seg) = {PlainText}

(***************************************************************************)
(* Properties of last_translated_by.                                       *)
(***************************************************************************)
\* the editors recorded for the key of (tr, seg): {} or one user
EditorOf(st, tr, seg) ==
    {r.last_translated_by : r \in Rows(st, seg.string, tr.target_locale, seg.context)}

\* C32: after a mark with an editor the record's last editor is that
\* editor; after a mark without an editor an existing record keeps the
\* last editor it had; an unmark that restores a backup does not change
\* the last editor.
C32_LastEditor ==
    \A tr \in Translations, seg \in Segments :
        /\ (LastWas("mark", tr, seg) /\ hist[1].user # NoUser) =>
              EditorOf(store, tr, seg) = {hist[1].user}
        /\ (/\ LastWas("mark", tr, seg)
            /\ hist[1].user = NoUser
            /\ EditorOf(hist[1].before, tr, seg) # {}) =>
              EditorOf(store, tr, seg) = EditorOf(hist[1].before, tr, seg)
        /\ (LastWas("unmark", tr, seg) /\ DataOf(store, tr, seg) # {}) =>
              EditorOf(store, tr, seg) = EditorOf(hist[1].before, tr, seg)

(***************************************************************************)
(* Properties of texts that begin with marker + separator.                 *)
(***************************************************************************)
\* a text that begins with marker + separator
Collides(d) == StartsWith(d, DO_NOT_TRANSLATE_MARKER \o BACKUP_SEPARATOR)

\* C33: a record whose text begins with marker + separator is treated as
\* an override by every operation: is_do_not_translate returns true, stats
\* count it as do-not-translate, mark does not wrap it in a second marker,
\* resolve yields the source text, and unmark replaces the data by the
\* text after the first separator.
C33_CollisionIsOverride ==
    /\ (/\ ret.op = "is_do_not_translate"
        /\ hist # <<>> /\ hist[1].op = "is_do_not_translate"
        /\ Collides(hist[1].row.data)) => ret.val = <<TRUE>>
    /\ ret.op = "stats" =>
          ret.val[1].do_not_translate =
              Cardinality({r \in JobRecords(store, TrOf(ret.tr)) :
                             r.data = DO_NOT_TRANSLATE_MARKER \/ Collides(r.data)})
    /\ (ret.op = "resolve" /\ cfg.enabled) =>
          \A i \in 1..Len(ret.segs) :
              \A r \in RowsRead(i) :
                  Collides(r.data) => ret.val[i].text = StringData(ret.segs[i].string)
    /\ \A tr \in Translations, seg \in Segments :
          \A d \in (IF hist # <<>> /\ hist[1].op \in {"mark", "unmark"}
                    THEN {x \in DataOf(hist[1].before, tr, seg) : Collides(x)}
                    ELSE {}) :
              /\ LastWas("mark", tr, seg) =>
                    /\ DataOf(store, tr, seg) # {Encoded(d)}
                    /\ \A x \in DataOf(store, tr, seg) : MarkerPrefixed(x)
              /\ LastWas("unmark", tr, seg) =>
                    DataOf(store, tr, seg) = {SplitAfterFirst(d, BACKUP_SEPARATOR)}

(***************************************************************************)
(* Properties of the records a call does not name.                         *)
(***************************************************************************)
\* the records of a table at keys other than that of (tr, seg)
OtherKeys(st, tr, seg) ==
    {r \in st : ~(/\ r.string = seg.string
                  /\ r.locale = tr.target_locale
                  /\ r.context = seg.context)}

\* C34: a mark or unmark call on a key leaves the record of every other
\* key as it was: records of the same string in another locale or at
\* another context, and records of other strings.
C34_Frame ==
    \A tr \in Translations, seg \in Segments :
        (LastWas("mark", tr, seg) \/ LastWas("unmark", tr, seg)) =>
            OtherKeys(store, tr, seg) = OtherKeys(hist[1].before, tr, seg)

\* an unmark that removed the record of the first segment from a table
\* holding the marker for the same string at another context and in
\* another locale, and a record of the second string
C34_Witness ==
    \E tr \in Translations, seg \in Segments :
        /\ LastWas("unmark", tr, seg)
        /\ seg.string = "s1"
        /\ store # hist[1].before
        /\ \E r \in store : r.string = "s1" /\ r.context = OtherContext
                              /\ r.data = DO_NOT_TRANSLATE_MARKER
        /\ \E r \in store : r.string = "s1" /\ r.locale = OtherLocale
                              /\ r.data = DO_NOT_TRANSLATE_MARKER
        /\ \E r \in store : r.string = "s2"

(***************************************************************************)
(* Properties relating the report of marked segments to the keys.          *)
(***************************************************************************)
\* C35: get_segments_do_not_translate contains a segment only if the
\* record at the segment's own (string, target locale, context) key is
\* marker-prefixed; a mark of the same string at another context does not
\* make the segment reported.
C35_ReportedOnlyIfOwnKeyMarked ==
    (ret.op = "get_segments" /\ ret.exc = "") =>
        \A seg \in ret.val[1] :
            \E d \in DataOf(store, TrOf(ret.tr), seg) : MarkerPrefixed(d)

(***************************************************************************)
(* Properties of failed requests.                                          *)
(***************************************************************************)
\* C36: a request to the mark endpoint that is not answered with success
\* leaves every record as it was; only after a response with success =
\* true may a record have changed.
C36_UnchangedOnError ==
    (hist # <<>> /\ ret.op = "view") =>
        /\ ~ret.val[1].success =>
              /\ ret.val[1].status \in {302, 400, 403, 404, 405}
              /\ store = hist[1].before
        /\ store # hist[1].before =>
              /\ ret.val[1].success
              /\ ret.val[1].status = 200

\* a request to unmark a marked segment that named a translation that does
\* not exist and was answered 404
C36_Witness ==
    /\ hist # <<>> /\ ret.op = "view"
    /\ ret.val[1].status = 404
    /\ hist[1].request.translation_id = 2
    /\ hist[1].request.segment_id = "s1"
    /\ hist[1].request.param = <<(<<"f", "a", "l", "s", "e">>)>>
    /\ DataOf(store, TrOf(1), SegOfString("s1")) = {Encoded(PlainText)}

====
